---- MODULE Spec2Model ----
(***************************************************************************)
(* pypi-docs-url: discovery of a package's intersphinx objects.inv URL.    *)
(*                                                                         *)
(* The resolver get_intersphinx_url (core.py) and the public helpers of    *)
(* docs_intersphinx.py, pypi_api.py and github_integration.py, as a state  *)
(* machine whose steps are the network requests of one call.               *)
(*                                                                         *)
(* A Python str is a sequence of one-character strings, so that strip,     *)
(* endswith, "in", lower and the regular expressions of the code are       *)
(* computed character by character.  Python's None is the one-element      *)
(* sequence <<"None">>, and a raised exception is <<"AttributeError">> or  *)
(* <<"TypeError">>: no str has a several-character element, so none of     *)
(* them is equal to a str.                                                 *)
(***************************************************************************)
EXTENDS Integers, Sequences, FiniteSets, TLC

None == <<"None">>
AttributeError == <<"AttributeError">>
TypeError == <<"TypeError">>

RequestException == <<"RequestException">>

\* A value that is an int (not zero), where a str is expected
Number == <<"int">>

\* isinstance(x, str)
IsStr(x) == \A i \in 1..Len(x) : x[i] \notin {"None", "AttributeError", "TypeError", "RequestException", "int"}

IsExc(x) == x \in {AttributeError, TypeError}

\* bool(x) for a str or None: None and "" are falsy
Truthy(x) == x # None /\ x # <<>>

SetMin(S) == CHOOSE x \in S : \A y \in S : x <= y

SetMax(S) == CHOOSE x \in S : \A y \in S : x >= y

\* string.whitespace, the characters str.strip() removes
Whitespace == {" ", "\t", "\n", "\r"}

\* s.endswith(t)
EndsWith(s, t) == Len(s) >= Len(t) /\ SubSeq(s, Len(s) - Len(t) + 1, Len(s)) = t

\* s.startswith(t)
StartsWith(s, t) == Len(s) >= Len(t) /\ SubSeq(s, 1, Len(t)) = t

\* t in s
Contains(s, t) == \E i \in 0..(Len(s) - Len(t)) : SubSeq(s, i + 1, i + Len(t)) = t

\* s.strip(): leading and trailing whitespace removed
Strip(s) ==
    LET keep == {i \in 1..Len(s) : s[i] \notin Whitespace}
    IN  IF keep = {} THEN <<>> ELSE SubSeq(s, SetMin(keep), SetMax(keep))

\* s.rstrip("/")
RStripSlash(s) ==
    LET keep == {i \in 1..Len(s) : s[i] # "/"}
    IN  IF keep = {} THEN <<>> ELSE SubSeq(s, 1, SetMax(keep))

\* s.strip("/")
StripSlash(s) ==
    LET keep == {i \in 1..Len(s) : s[i] # "/"}
    IN  IF keep = {} THEN <<>> ELSE SubSeq(s, SetMin(keep), SetMax(keep))

\* s.removesuffix(t)
RemoveSuffix(s, t) == IF EndsWith(s, t) /\ t # <<>> THEN SubSeq(s, 1, Len(s) - Len(t)) ELSE s

UpperChars == <<"A","B","C","D","E","F","G","H","I","J","K","L","M","N","O","P","Q","R","S","T","U","V","W","X","Y","Z">>

LowerChars == <<"a","b","c","d","e","f","g","h","i","j","k","l","m","n","o","p","q","r","s","t","u","v","w","x","y","z">>

\* c.lower() for one character
LowerChar(c) ==
    IF \E k \in 1..Len(UpperChars) : UpperChars[k] = c
    THEN LowerChars[CHOOSE k \in 1..Len(UpperChars) : UpperChars[k] = c]
    ELSE c

\* s.lower()
Lower(s) == SubSeq([i \in 1..Len(s) |-> LowerChar(s[i])], 1, Len(s))

(***************************************************************************)
(* Parsed documents.                                                       *)
(*                                                                         *)
(* A registry body is named by an opaque text; r.json() is the table       *)
(* MetaJson.  A parsed metadata document is a record                       *)
(*   json  : "invalid" (the body is not JSON), "emptyobject" ({}),         *)
(*           "object" (with "info"), or "none" (data is None)              *)
(*   purls : "map", "null" or "missing"  (info["project_urls"])            *)
(*   urls  : the mapping, as the sequence of <<label, link>> in document   *)
(*           order (json.loads keeps the order); a link is a str or None   *)
(*   home  : info["home_page"], a str or None (null or missing)            *)
(***************************************************************************)

\* info.get("project_urls", {}) as a list of (label, link); None for null
purls_of(data) == IF data.purls = "map" THEN data.urls ELSE <<>>

\* list(purls.values()) followed by the home page when it is truthy
candidates_of(data) ==
    [i \in 1..Len(purls_of(data)) |-> purls_of(data)[i][2]]
        \o (IF Truthy(data.home) THEN <<data.home>> ELSE <<>>)

\* core.py _find_doc_url_candidate
_find_doc_url_candidate(data) ==
    IF data.json # "object" THEN AttributeError
    ELSE IF data.purls = "null" THEN AttributeError
    ELSE
    LET purls == purls_of(data)
        homepage == data.home
        labelled == {i \in 1..Len(purls) :
                        \/ Contains(Lower(purls[i][1]), <<"d","o","c">>)
                        \/ Contains(Lower(purls[i][1]), <<"d","o","c","u","m","e","n","t","a","t","i","o","n">>)}
        exact == {i \in 1..Len(purls) : purls[i][1] = <<"D","o","c","u","m","e","n","t","a","t","i","o","n">>}
        \* loop d) stops at the first link that is None ("in" raises) or matches
        hits == {i \in 1..Len(purls) :
                        \/ ~IsStr(purls[i][2])
                        \/ Contains(purls[i][2], <<"s","t","a","b","l","e">>)
                        \/ Contains(purls[i][2], <<"l","a","t","e","s","t">>)}
    IN  IF labelled # {} THEN purls[SetMin(labelled)][2]
        ELSE IF exact # {} THEN purls[SetMin(exact)][2]
        ELSE IF Truthy(homepage)
                /\ (\/ Contains(Lower(homepage), <<"r","e","a","d","t","h","e","d","o","c","s">>)
                    \/ Contains(Lower(homepage), <<"d","o","c","s">>))
             THEN homepage
        ELSE IF hits # {}
             THEN IF IsStr(purls[SetMin(hits)][2])
                  THEN purls[SetMin(hits)][2]
                  ELSE TypeError
        ELSE None

\* The places i of link where "/(stable|latest)(?:/|$)" matches: link[i] is
\* the "/", and "$" matches at the end or before a final newline.
StableLatestAt(link) ==
    {i \in 1..Len(link) :
        /\ link[i] = "/"
        /\ Len(link) >= i + 6
        /\ SubSeq(link, i + 1, i + 6) \in {<<"s","t","a","b","l","e">>, <<"l","a","t","e","s","t">>}
        /\ \/ Len(link) = i + 6
           \/ link[i + 7] = "/"
           \/ (Len(link) = i + 7 /\ link[i + 7] = "\n")}

\* A greedy group, "(.*)": it ends at the last match place
StableLatestBase_Greedy(link) ==
    LET i == SetMax(StableLatestAt(link))
    IN  SubSeq(link, 1, i - 1) \o <<"/">> \o SubSeq(link, i + 1, i + 6)

\* re.search(r"(.*?)/(stable|latest)(?:/|$)", link): group(1) + "/" + group(2).
\* The lazy group ends at the first match place; "." matches no newline,
\* so the group starts after the last newline before that place.
StableLatestBase(link) ==
    LET i == SetMin(StableLatestAt(link))
        nl == {k \in 1..(i - 1) : link[k] = "\n"}
        from == IF nl = {} THEN 1 ELSE SetMax(nl) + 1
    IN  SubSeq(link, from, i - 1) \o <<"/">> \o SubSeq(link, i + 1, i + 6)

\* core.py _find_stable_latest_link
_find_stable_latest_link(data) ==
    IF data.json # "object" THEN AttributeError
    ELSE IF data.purls = "null" THEN AttributeError
    ELSE
    LET candidates == candidates_of(data)
        hits == {i \in 1..Len(candidates) :
                    IsStr(candidates[i]) /\ StableLatestAt(candidates[i]) # {}}
    IN  IF hits # {} THEN StableLatestBase(candidates[SetMin(hits)]) ELSE None

\* The first link on https://github.com/ preferred to an earlier GitHub link
_find_github_repo_in_project_urls_Usable(data) ==
    LET candidates == candidates_of(data)
        hits == {i \in 1..Len(candidates) :
                    IsStr(candidates[i])
                    /\ Contains(Lower(candidates[i]), <<"g","i","t","h","u","b",".","c","o","m">>)}
        usable == {i \in hits : StartsWith(candidates[i], <<"h","t","t","p","s",":","/","/","g","i","t","h","u","b",".","c","o","m","/">>)}
    IN  IF usable # {} THEN candidates[SetMin(usable)]
        ELSE IF hits # {} THEN candidates[SetMin(hits)]
        ELSE None

\* core.py _find_github_repo_in_project_urls
_find_github_repo_in_project_urls(data) ==
    IF data.json # "object" THEN AttributeError
    ELSE IF data.purls = "null" THEN AttributeError
    ELSE
    LET candidates == candidates_of(data)
        hits == {i \in 1..Len(candidates) :
                    IsStr(candidates[i])
                    /\ Contains(Lower(candidates[i]), <<"g","i","t","h","u","b",".","c","o","m">>)}
    IN  IF hits # {} THEN candidates[SetMin(hits)] ELSE None

\* The home page that looks like documentation tried before the labels
find_doc_url_candidate_HomeFirst(data) ==
    LET purls == purls_of(data)
        homepage == data.home
        labelled == {i \in 1..Len(purls) : Contains(Lower(purls[i][1]), <<"d","o","c">>)}
        hits == {i \in 1..Len(purls) :
                        /\ IsStr(purls[i][2])
                        /\ \/ Contains(purls[i][2], <<"s","t","a","b","l","e">>)
                           \/ Contains(purls[i][2], <<"l","a","t","e","s","t">>)}
    IN  IF Truthy(homepage)
                /\ (\/ Contains(Lower(homepage), <<"r","e","a","d","t","h","e","d","o","c","s">>)
                    \/ Contains(Lower(homepage), <<"d","o","c","s">>))
             THEN homepage
        ELSE IF labelled # {} THEN purls[SetMin(labelled)][2]
        ELSE IF hits # {} THEN purls[SetMin(hits)][2]
        ELSE IF Truthy(homepage) THEN homepage
        ELSE None

\* pypi_api.py find_doc_url_candidate
find_doc_url_candidate(data) ==
    IF data.json = "none" THEN AttributeError
    ELSE IF data.purls = "null" THEN AttributeError
    ELSE
    LET purls == purls_of(data)
        homepage == data.home
        labelled == {i \in 1..Len(purls) :
                        \/ Contains(Lower(purls[i][1]), <<"d","o","c">>)
                        \/ Contains(Lower(purls[i][1]), <<"d","o","c","u","m","e","n","t","a","t","i","o","n">>)}
        exact == {i \in 1..Len(purls) : purls[i][1] = <<"D","o","c","u","m","e","n","t","a","t","i","o","n">>}
        hits == {i \in 1..Len(purls) :
                        /\ IsStr(purls[i][2])
                        /\ \/ Contains(purls[i][2], <<"s","t","a","b","l","e">>)
                           \/ Contains(purls[i][2], <<"l","a","t","e","s","t">>)}
    IN  IF labelled # {} THEN purls[SetMin(labelled)][2]
        ELSE IF exact # {} THEN purls[SetMin(exact)][2]
        ELSE IF Truthy(homepage)
                /\ (\/ Contains(Lower(homepage), <<"r","e","a","d","t","h","e","d","o","c","s">>)
                    \/ Contains(Lower(homepage), <<"d","o","c","s">>))
             THEN homepage
        ELSE IF hits # {} THEN purls[SetMin(hits)][2]
        ELSE IF Truthy(homepage) THEN homepage
        ELSE None

\* pypi_api.py find_stable_latest_link
find_stable_latest_link(data) ==
    IF data.json = "none" THEN AttributeError
    ELSE IF data.purls = "null" THEN AttributeError
    ELSE
    LET candidates == candidates_of(data)
        hits == {i \in 1..Len(candidates) :
                    IsStr(candidates[i]) /\ StableLatestAt(candidates[i]) # {}}
    IN  IF hits # {} THEN StableLatestBase(candidates[SetMin(hits)]) ELSE None

\* The text matched by "([^/]+)" at the start of s: its longest prefix without "/"
Segment(s) ==
    LET slashes == {i \in 1..Len(s) : s[i] = "/"}
    IN  IF slashes = {} THEN s ELSE SubSeq(s, 1, SetMin(slashes) - 1)

\* s without its first n characters
Drop(s, n) == SubSeq(s, n + 1, Len(s))

\* github_integration.py parse_github_repo_url (core.py _parse_github_repo_url
\* is the same code): re.match(r"https://github\.com/([^/]+)/([^/]+)", link)
parse_github_repo_url(link) ==
    LET prefix == <<"h","t","t","p","s",":","/","/","g","i","t","h","u","b",".","c","o","m","/">>
        rest == Drop(link, Len(prefix))
        org == Segment(rest)
        after == Drop(rest, Len(org))
        m2 == Segment(Drop(after, 1))
    IN  IF /\ StartsWith(link, prefix)
           /\ org # <<>>
           /\ after # <<>>
           /\ m2 # <<>>
        THEN <<org, RemoveSuffix(m2, <<".","g","i","t">>)>>
        ELSE None

\* docs_intersphinx.py parse_domain_from_url (core.py _parse_domain_from_url
\* is the same code): re.match(r"https?://([^/]+)/", url.strip())
parse_domain_from_url(url) ==
    LET u == Strip(url)
        scheme == IF StartsWith(u, <<"h","t","t","p","s",":","/","/">>) THEN <<"h","t","t","p","s",":","/","/">>
                  ELSE IF StartsWith(u, <<"h","t","t","p",":","/","/">>) THEN <<"h","t","t","p",":","/","/">>
                  ELSE <<>>
        rest == Drop(u, Len(scheme))
        dom == Segment(rest)
    IN  IF scheme # <<>> /\ dom # <<>> /\ Len(rest) > Len(dom)
        THEN dom
        ELSE None

(***************************************************************************)
(* A workflow body is named by an opaque text; yaml.safe_load is the       *)
(* table WorkflowYaml.  A parsed workflow is a record                      *)
(*   yaml   : "error" (YAMLError), "null" (an empty document), "scalar",   *)
(*            "list" or "map": what the top level of the document is       *)
(*   jobs   : config["jobs"]: "missing", "null", "list" or "map"           *)
(*   job    : jobs["build-python-docs"]: "missing", "null", "list", "map"  *)
(*   stepsKind : job["steps"]: "missing", "null", "str" (a text that is    *)
(*            not empty) or "list"                                         *)
(*   steps  : the items of job["steps"], in document order.  A step is a   *)
(*            record with kind ("map", or "str" for an item that is a      *)
(*            plain text), "with" ("none" when missing or null, "str" or   *)
(*            "map") and tf, the value of with["target-folder"]: a str,    *)
(*            None when it is missing or null, or Number                   *)
(*   others : the steps of the other jobs, in document order               *)
(***************************************************************************)

\* The steps at which the loop "for step in steps" ends: a step that is not
\* a mapping (step.get raises), a target-folder that is an int ("in"
\* raises), or a target-folder that is a str and contains "stable"
Decisive(steps) ==
    {i \in 1..Len(steps) :
        \/ steps[i].kind # "map"
        \/ /\ steps[i].with = "map"
           /\ Truthy(steps[i].tf)
           /\ ~IsStr(steps[i].tf) \/ Contains(steps[i].tf, <<"s","t","a","b","l","e">>)}

\* What the loop does at the decisive step
AtStep(step) ==
    IF step.kind # "map" THEN AttributeError
    ELSE IF ~IsStr(step.tf) THEN TypeError
    ELSE step.tf

\* The last matching step rather than the first
ScanSteps_Last(steps) ==
    IF Decisive(steps) = {} THEN None ELSE AtStep(steps[SetMax(Decisive(steps))])

\* github_integration.py parse_stable_subfolder, the loop over the steps
ScanSteps(steps) ==
    IF Decisive(steps) = {} THEN None ELSE AtStep(steps[SetMin(Decisive(steps))])

\* github_integration.py parse_stable_subfolder (core.py _parse_stable_subfolder
\* is the same code)
parse_stable_subfolder(config) ==
    IF config.yaml = "error" THEN None
    ELSE IF config.yaml # "map" THEN AttributeError
    ELSE IF config.jobs = "missing" THEN None
    ELSE IF config.jobs # "map" THEN AttributeError
    ELSE IF config.job = "missing" THEN None
    ELSE IF config.job # "map" THEN AttributeError
    ELSE IF config.stepsKind = "missing" THEN None
    ELSE IF config.stepsKind = "null" THEN TypeError
    ELSE IF config.stepsKind = "str" THEN AttributeError
    ELSE ScanSteps(config.steps)

\* docs_intersphinx.py try_intersphinx_expansions, lines 17-24: the base
\* stripped, one trailing .html or .htm removed, trailing "/" removed
trimmed_of(base_url) ==
    LET t == Strip(base_url)
        u == IF EndsWith(t, <<".","h","t","m","l">>) THEN SubSeq(t, 1, Len(t) - 5)
             ELSE IF EndsWith(t, <<".","h","t","m">>) THEN SubSeq(t, 1, Len(t) - 4)
             ELSE t
    IN  RStripSlash(u)

\* rstrip("/") forgotten
_trimmed_of_NoRstrip(base_url) ==
    LET t == Strip(base_url)
    IN  IF EndsWith(t, <<".","h","t","m","l">>) THEN SubSeq(t, 1, Len(t) - 5)
        ELSE IF EndsWith(t, <<".","h","t","m">>) THEN SubSeq(t, 1, Len(t) - 4)
        ELSE t

\* core.py _try_intersphinx_expansions, lines 218-225
_trimmed_of(base_url) ==
    LET t == Strip(base_url)
        u == IF EndsWith(t, <<".","h","t","m","l">>) THEN SubSeq(t, 1, Len(t) - 5)
             ELSE IF EndsWith(t, <<".","h","t","m">>) THEN SubSeq(t, 1, Len(t) - 4)
             ELSE t
    IN  RStripSlash(u)

\* The versioned folder tried before the root
expansions_StableFirst ==
    << <<"s","t","a","b","l","e","/","o","b","j","e","c","t","s",".","i","n","v">>,
       <<"o","b","j","e","c","t","s",".","i","n","v">>,
       <<"e","n","/","s","t","a","b","l","e","/","o","b","j","e","c","t","s",".","i","n","v">>,
       <<"l","a","t","e","s","t","/","o","b","j","e","c","t","s",".","i","n","v">>,
       <<"e","n","/","l","a","t","e","s","t","/","o","b","j","e","c","t","s",".","i","n","v">>,
       <<"d","o","c","/","o","b","j","e","c","t","s",".","i","n","v">>,
       <<"d","o","c","s","/","o","b","j","e","c","t","s",".","i","n","v">> >>

\* docs_intersphinx.py try_intersphinx_expansions: the suffixes, in order
expansions ==
    << <<"o","b","j","e","c","t","s",".","i","n","v">>,
       <<"s","t","a","b","l","e","/","o","b","j","e","c","t","s",".","i","n","v">>,
       <<"e","n","/","s","t","a","b","l","e","/","o","b","j","e","c","t","s",".","i","n","v">>,
       <<"l","a","t","e","s","t","/","o","b","j","e","c","t","s",".","i","n","v">>,
       <<"e","n","/","l","a","t","e","s","t","/","o","b","j","e","c","t","s",".","i","n","v">>,
       <<"d","o","c","/","o","b","j","e","c","t","s",".","i","n","v">>,
       <<"d","o","c","s","/","o","b","j","e","c","t","s",".","i","n","v">> >>

\* The versioned folder tried before the root
_expansions_StableFirst ==
    << <<"s","t","a","b","l","e","/","o","b","j","e","c","t","s",".","i","n","v">>,
       <<"o","b","j","e","c","t","s",".","i","n","v">>,
       <<"e","n","/","s","t","a","b","l","e","/","o","b","j","e","c","t","s",".","i","n","v">>,
       <<"l","a","t","e","s","t","/","o","b","j","e","c","t","s",".","i","n","v">>,
       <<"e","n","/","l","a","t","e","s","t","/","o","b","j","e","c","t","s",".","i","n","v">> >>

\* A longer list of suffixes
_expansions_Eight ==
    << <<"o","b","j","e","c","t","s",".","i","n","v">>,
       <<"s","t","a","b","l","e","/","o","b","j","e","c","t","s",".","i","n","v">>,
       <<"e","n","/","s","t","a","b","l","e","/","o","b","j","e","c","t","s",".","i","n","v">>,
       <<"l","a","t","e","s","t","/","o","b","j","e","c","t","s",".","i","n","v">>,
       <<"e","n","/","l","a","t","e","s","t","/","o","b","j","e","c","t","s",".","i","n","v">>,
       <<"d","o","c","/","o","b","j","e","c","t","s",".","i","n","v">>,
       <<"d","o","c","s","/","o","b","j","e","c","t","s",".","i","n","v">>,
       <<"d","o","c","s","/","s","t","a","b","l","e","/","o","b","j","e","c","t","s",".","i","n","v">> >>

\* core.py _try_intersphinx_expansions: the suffixes, in order
_expansions ==
    << <<"o","b","j","e","c","t","s",".","i","n","v">>,
       <<"s","t","a","b","l","e","/","o","b","j","e","c","t","s",".","i","n","v">>,
       <<"e","n","/","s","t","a","b","l","e","/","o","b","j","e","c","t","s",".","i","n","v">>,
       <<"l","a","t","e","s","t","/","o","b","j","e","c","t","s",".","i","n","v">>,
       <<"e","n","/","l","a","t","e","s","t","/","o","b","j","e","c","t","s",".","i","n","v">> >>

\* test_url = trimmed + "/" + path
test_url(trimmed, path) == trimmed \o <<"/">> \o path

\* f"https://pypi.org/pypi/{pkg}/json"
pypi_url(pkg) == <<"h","t","t","p","s",":","/","/","p","y","p","i",".","o","r","g","/","p","y","p","i","/">> \o pkg \o <<"/","j","s","o","n">>

\* The workflow looked for on the branch master
workflow_url_Master(org, repo) ==
    <<"h","t","t","p","s",":","/","/","r","a","w",".","g","i","t","h","u","b","u","s","e","r","c","o","n","t","e","n","t",".","c","o","m","/">> \o org \o <<"/">> \o repo
        \o <<"/","m","a","s","t","e","r","/",".","g","i","t","h","u","b","/","w","o","r","k","f","l","o","w","s","/","d","o","c","s","-","p","y","t","h","o","n",".","y","m","l">>

\* f"https://raw.githubusercontent.com/{org}/{repo}/main/.github/workflows/docs-python.yml"
workflow_url(org, repo) ==
    <<"h","t","t","p","s",":","/","/","r","a","w",".","g","i","t","h","u","b","u","s","e","r","c","o","n","t","e","n","t",".","c","o","m","/">> \o org \o <<"/">> \o repo
        \o <<"/","m","a","i","n","/",".","g","i","t","h","u","b","/","w","o","r","k","f","l","o","w","s","/","d","o","c","s","-","p","y","t","h","o","n",".","y","m","l">>

\* core.py: the domain of the fallback guess, from the first truthy candidate
\* whose host _parse_domain_from_url extracts, else the hard-coded default
domain_of(doc_candidate, stable_candidate) ==
    LET d1 == IF Truthy(doc_candidate) THEN parse_domain_from_url(doc_candidate) ELSE None
        d2 == IF Truthy(stable_candidate) THEN parse_domain_from_url(stable_candidate) ELSE None
    IN  IF Truthy(d1) THEN d1
        ELSE IF Truthy(d2) THEN d2
        ELSE <<"d","o","c","s",".","p","o","l","a",".","r","s">>

\* guess = f"https://{domain}/{stable_tf}/objects.inv" with stable_tf.strip("/")
guess_of(domain, stable_tf) ==
    <<"h","t","t","p","s",":","/","/">> \o domain \o <<"/">> \o StripSlash(stable_tf) \o <<"/","o","b","j","e","c","t","s",".","i","n","v">>

(***************************************************************************)
(* The external services.  What they may answer is drawn from the small    *)
(* sets below; the code has no say in it.                                  *)
(***************************************************************************)

\* The calls get_intersphinx_url(pkg) a behaviour makes, one after the other
MaxCalls == 2

\* The requests of one call that may end in a requests.RequestException
\* (timeout, connection failure) rather than a status
MaxFaults == 2

Packages == {<<"n","u","m","p","y">>, <<"p","o","l","a","r","s">>}

Link(label, url) == <<label, url>>

Meta(kind, purls, urls, home) == [json |-> kind, purls |-> purls, urls |-> urls, home |-> home]

\* data is None
NoData == Meta("none", "missing", <<>>, None)

\* r.json() of a registry body
MetaJson(body) ==
    CASE body = "numpy" ->
            Meta("object", "map",
                 << Link(<<"D","o","c","u","m","e","n","t","a","t","i","o","n">>, <<"h","t","t","p","s",":","/","/","n","u","m","p","y",".","o","r","g","/","d","o","c","/">>) >>, None)
      [] body = "polars" ->
            Meta("object", "map",
                 << Link(<<"R","e","p","o","s","i","t","o","r","y">>, <<"h","t","t","p","s",":","/","/","g","i","t","h","u","b",".","c","o","m","/","p","o","l","a","-","r","s","/","p","o","l","a","r","s">>) >>, None)
      [] body = "docs_gh" ->
            Meta("object", "map",
                 << Link(<<"S","o","u","r","c","e">>, <<"h","t","t","p","s",":","/","/","g","i","t","h","u","b",".","c","o","m","/","o","/","r",".","g","i","t">>),
                    Link(<<"A","P","I"," ","D","o","c","s">>, <<" ","h","t","t","p","s",":","/","/","x",".","i","o","/","a",".","h","t","m","l"," ">>) >>, None)
      [] body = "stable_gh" ->
            Meta("object", "map",
                 << Link(<<"C","h","a","n","g","e","l","o","g">>, <<"h","t","t","p","s",":","/","/","y",".","i","o","/","e","n","/","s","t","a","b","l","e","/","n","e","w","s",".","h","t","m">>),
                    Link(<<"C","o","d","e">>, <<"h","t","t","p","s",":","/","/","g","i","t","h","u","b",".","c","o","m","/","o","/","r","/","i","s","s","u","e","s">>) >>, None)
      [] body = "same_base" ->
            Meta("object", "map",
                 << Link(<<"D","o","c","u","m","e","n","t","a","t","i","o","n">>, <<"h","t","t","p","s",":","/","/","s",".","i","o","/","s","t","a","b","l","e","/">>) >>,
                 <<"h","t","t","p","s",":","/","/","g","i","t","h","u","b",".","c","o","m","/","o","/","r">>)
      [] body = "gh_rejected" ->
            Meta("object", "map",
                 << Link(<<"S","o","u","r","c","e">>, <<"h","t","t","p",":","/","/","g","i","t","h","u","b",".","c","o","m","/","o","/","r">>),
                    Link(<<"C","o","d","e">>, <<"h","t","t","p","s",":","/","/","g","i","t","h","u","b",".","c","o","m","/","o","/","r">>) >>, None)
      [] body = "gh_org_only" ->
            Meta("object", "map",
                 << Link(<<"S","o","u","r","c","e">>, <<"h","t","t","p","s",":","/","/","g","i","t","h","u","b",".","c","o","m","/","o">>) >>,
                 <<"h","t","t","p","s",":","/","/","w","w","w",".","G","i","t","H","u","b",".","c","o","m","/","o","/","r">>)
      [] body = "bare_doc" ->
            Meta("object", "map",
                 << Link(<<"D","o","c","u","m","e","n","t","a","t","i","o","n">>, <<"h","t","t","p","s",":","/","/","n",".","o","r","g">>) >>,
                 <<"h","t","t","p","s",":","/","/","g","i","t","h","u","b",".","c","o","m","/","o","/","r">>)
      [] body = "home_stable" ->
            Meta("object", "map",
                 << Link(<<"S","o","u","r","c","e">>, <<"h","t","t","p","s",":","/","/","g","i","t","h","u","b",".","c","o","m","/","o","/","r">>) >>,
                 <<"h","t","t","p","s",":","/","/","h",".","i","o","/","s","t","a","b","l","e","/">>)
      [] body = "home" ->
            Meta("object", "map", <<>>, <<"h","t","t","p","s",":","/","/","d","o","c","s",".","z",".","i","o","/","/">>)
      [] body = "null_link" ->
            Meta("object", "map", << Link(<<"H","o","m","e","p","a","g","e">>, None) >>, None)
      [] body = "no_links" -> Meta("object", "map", <<>>, None)
      [] body = "links_missing" -> Meta("object", "missing", <<>>, None)
      [] body = "links_null" -> Meta("object", "null", <<>>, None)
      [] body = "empty_object" -> Meta("emptyobject", "missing", <<>>, None)
      [] OTHER -> Meta("invalid", "missing", <<>>, None)

\* The bodies the registry may serve for a package
MetaBodies(pkg) ==
    CASE pkg = <<"n","u","m","p","y">> ->
            {"numpy", "docs_gh", "home", "no_links", "links_missing", "links_null",
             "empty_object", "not_json"}
      [] pkg = <<"p","o","l","a","r","s">> ->
            {"polars", "stable_gh", "same_base", "null_link", "gh_rejected", "gh_org_only",
             "bare_doc", "home_stable"}
      [] pkg = <<"s","b","a","s","e">> -> {"same_base"}
      [] OTHER -> {"no_links"}

Step(with, tf) == [kind |-> "map", with |-> with, tf |-> tf]

\* A step that is a plain text, as in "- checkout"
TextStep == [kind |-> "str", with |-> "none", tf |-> None]

Config(top, jobs, job, stepsKind, steps, others) ==
    [yaml |-> top, jobs |-> jobs, job |-> job, stepsKind |-> stepsKind,
     steps |-> steps, others |-> others]

\* A document whose only job is build-python-docs, with these steps
Workflow(kind, steps) == Config(kind, "map", "map", "list", steps, <<>>)

\* yaml.safe_load of a workflow body
WorkflowYaml(body) ==
    CASE body = "wf_stable" ->
            Workflow("map", << Step("none", None), Step("map", <<"a","p","i","/","p","y","t","h","o","n","/","s","t","a","b","l","e">>) >>)
      [] body = "wf_slashes" ->
            Workflow("map", << Step("map", <<"d","e","v">>), Step("map", <<"/","s","t","a","b","l","e","/">>) >>)
      [] body = "wf_dev" -> Workflow("map", << Step("map", <<"d","e","v">>) >>)
      [] body = "wf_empty" -> Workflow("null", <<>>)
      [] OTHER -> Workflow("error", <<>>)

WorkflowBodies == {"wf_stable", "wf_slashes", "wf_dev", "wf_empty", "wf_not_yaml"}

\* A response with a status, or a request that raised requests.RequestException
Resp(status, body) == [exc |-> FALSE, status |-> status, body |-> body]

Failed == [exc |-> TRUE, status |-> 0, body |-> ""]

MetaResponses(pkg) ==
    {Resp(200, b) : b \in MetaBodies(pkg)} \cup {Resp(404, ""), Resp(500, ""), Failed}

WorkflowResponses ==
    {Resp(200, b) : b \in WorkflowBodies} \cup {Resp(404, ""), Resp(500, ""), Failed}

HeadResponses == {Resp(200, ""), Resp(404, ""), Failed}

(***************************************************************************)
(* State.                                                                  *)
(***************************************************************************)
VARIABLES
    pkg,               \* package_name of the calls of the running thread
    calls,             \* calls of get_intersphinx_url started so far, by any thread
    pc,                \* where the running call stands
    session,           \* the requests.Session of the running call: its requests, in order
    data,              \* the parsed registry metadata
    doc_candidate,
    stable_candidate,
    idx,               \* position of the expansions loop (1-based)
    guess,             \* the fallback URL
    result,            \* the returned value, or the exception raised
    outcome,           \* "running", "returned" or "raised"
    upstream,          \* what the services have answered so far
    finished,          \* the completed calls, in order
    base_url,          \* the argument of try_intersphinx_expansions
    link,              \* the argument of parse_github_repo_url
    orgrepo,           \* its result
    parked,            \* the frame of the call of the other thread, while this one runs
    config,            \* the argument of parse_stable_subfolder, parsed
    subfolder          \* its result

vars == <<pkg, calls, pc, session, data, doc_candidate, stable_candidate, idx,
          guess, result, outcome, upstream, finished, base_url, link, orgrepo,
          parked, config, subfolder>>

locals == <<data, doc_candidate, stable_candidate, idx, guess>>

unit == <<base_url, link, orgrepo, parked, config, subfolder>>

Request(method, url, resp) == [method |-> method, url |-> url, resp |-> resp]

\* The frame of a call: package_name and the locals of get_intersphinx_url
Frame(p, at, s, d, dc, sc, i, g, r, o) ==
    [pkg |-> p, pc |-> at, session |-> s, data |-> d,
     doc_candidate |-> dc, stable_candidate |-> sc, idx |-> i, guess |-> g,
     result |-> r, outcome |-> o]

\* There is no other thread
NoThread == Frame(<<>>, "none", <<>>, <<>>, None, None, 0, None, None, "running")

\* requests.Session(): a new session has sent nothing
NewSession == <<>>

Faults(s) == Cardinality({i \in 1..Len(s) : s[i].resp.exc})

\* The answers the services may give to a request.  The upstream state is
\* steady: a request answered before gets the same answer again.
Answers(method, url, choices) ==
    LET known == {e \in upstream : e.method = method /\ e.url = url}
    IN  IF known # {} THEN {e.resp : e \in known}
        ELSE {r \in choices : r.exc => Faults(session) < MaxFaults}

\* session.get / session.head: the request is sent and answered
Send(method, url, resp) ==
    /\ session' = Append(session, Request(method, url, resp))
    /\ upstream' = upstream \cup {Request(method, url, resp)}

\* The call ends: return value (how = "returned") or exception (how = "raised")
Finish(how, value, sent) ==
    /\ pc' = "done"
    /\ outcome' = how
    /\ result' = value
    /\ finished' = Append(finished,
                     [pkg |-> pkg, session |-> sent, result |-> value, outcome |-> how])

Continue(at) ==
    /\ pc' = at
    /\ UNCHANGED <<outcome, result, finished>>

\* core.py _fetch_pypi_json: raise_for_status raises for 4xx and 5xx, r.json()
\* raises requests.JSONDecodeError; both are RequestException and give None
_fetch_pypi_json(resp) ==
    IF resp.exc THEN NoData
    ELSE IF resp.status >= 400 /\ resp.status < 600 THEN NoData
    ELSE IF MetaJson(resp.body).json = "invalid" THEN NoData
    ELSE MetaJson(resp.body)

\* The check "if not data" left out
DataTruthy_Always(d) == TRUE

\* bool(data): None, {} are falsy
DataTruthy(d) == d.json \notin {"none", "emptyobject"}

\* core.py _fetch_docs_python_yml: r.text on status 200, else None
_fetch_docs_python_yml(resp) ==
    IF ~resp.exc /\ resp.status = 200 THEN resp.body ELSE ""

\* Any response that is not an exception taken for a success
Found_AnyStatus(resp) == ~resp.exc

\* r.status_code == 200
Found(resp) == ~resp.exc /\ resp.status = 200

(***************************************************************************)
(* get_intersphinx_url (core.py), one action per step between requests.    *)
(***************************************************************************)

\* get_intersphinx_url is called: with requests.Session() as session
Call ==
    /\ pc \in {"idle", "done"}
    /\ calls < MaxCalls
    /\ calls' = calls + 1
    /\ pc' = "A"
    /\ session' = NewSession
    /\ data' = NoData
    /\ doc_candidate' = None
    /\ stable_candidate' = None
    /\ idx' = 0
    /\ guess' = None
    /\ result' = None
    /\ outcome' = "running"
    /\ UNCHANGED <<pkg, upstream, finished, unit>>

\* Step A, after the response: data = _fetch_pypi_json(...); if not data: return None
AfterFetch(resp, sent) ==
    LET d == _fetch_pypi_json(resp)
    IN  /\ data' = d
        /\ IF DataTruthy(d) THEN Continue("B") ELSE Finish("returned", None, sent)

\* A memoised Step A: the metadata of a package fetched before is not fetched again
StepA_Memo ==
    /\ pc = "A"
    /\ IF finished = <<>>
       THEN \E resp \in Answers("GET", pypi_url(pkg), MetaResponses(pkg)) :
                /\ Send("GET", pypi_url(pkg), resp)
                /\ AfterFetch(resp, Append(session, Request("GET", pypi_url(pkg), resp)))
       ELSE \E e \in {x \in upstream : x.method = "GET" /\ x.url = pypi_url(pkg)} :
                /\ UNCHANGED <<session, upstream>>
                /\ AfterFetch(e.resp, session)
    /\ UNCHANGED <<pkg, calls, doc_candidate, stable_candidate, idx, guess, unit>>

\* Step A: fetch the PyPI JSON; if not data: return None
StepA ==
    /\ pc = "A"
    /\ \E resp \in Answers("GET", pypi_url(pkg), MetaResponses(pkg)) :
        /\ Send("GET", pypi_url(pkg), resp)
        /\ AfterFetch(resp, Append(session, Request("GET", pypi_url(pkg), resp)))
    /\ UNCHANGED <<pkg, calls, doc_candidate, stable_candidate, idx, guess, unit>>

\* Step B: doc_candidate = _find_doc_url_candidate(data)
StepB_Find ==
    /\ pc = "B"
    /\ LET c == _find_doc_url_candidate(data)
       IN  IF IsExc(c)
           THEN /\ Finish("raised", c, session)
                /\ UNCHANGED <<doc_candidate, idx>>
           ELSE /\ doc_candidate' = c
                /\ idx' = IF Truthy(c) THEN 1 ELSE 0
                /\ Continue(IF Truthy(c) THEN "B_probe" ELSE "C")
    /\ UNCHANGED <<pkg, calls, session, upstream, data, stable_candidate, guess, unit>>

\* The loop goes through all suffixes and returns at the last one that answered 200
Probe_AllSuffixes(candidate, after) ==
    LET url == test_url(_trimmed_of(candidate), _expansions[idx])
    IN  \E resp \in Answers("HEAD", url, HeadResponses) :
            /\ Send("HEAD", url, resp)
            /\ IF idx < Len(_expansions)
               THEN /\ Continue(pc)
                    /\ idx' = idx + 1
               ELSE IF Found(resp)
               THEN /\ Finish("returned", url, Append(session, Request("HEAD", url, resp)))
                    /\ idx' = idx
               ELSE /\ Continue(after)
                    /\ idx' = 0

\* One turn of the loop of _try_intersphinx_expansions(session, candidate):
\* a HEAD on the next suffix; 200 returns the URL, the last failure goes on at `after`
Probe(candidate, after) ==
    LET url == test_url(_trimmed_of(candidate), _expansions[idx])
    IN  \E resp \in Answers("HEAD", url, HeadResponses) :
            /\ Send("HEAD", url, resp)
            /\ IF Found(resp)
               THEN /\ Finish("returned", url, Append(session, Request("HEAD", url, resp)))
                    /\ idx' = idx
               ELSE IF idx < Len(_expansions)
               THEN /\ Continue(pc)
                    /\ idx' = idx + 1
               ELSE /\ Continue(after)
                    /\ idx' = 0

\* Step B: inv_url = _try_intersphinx_expansions(session, doc_candidate)
StepB_Probe ==
    /\ pc = "B_probe"
    /\ Probe(doc_candidate, "C")
    /\ UNCHANGED <<pkg, calls, data, doc_candidate, stable_candidate, guess, unit>>

\* Step C: stable_candidate = _find_stable_latest_link(data)
StepC_Find ==
    /\ pc = "C"
    /\ LET c == _find_stable_latest_link(data)
       IN  IF IsExc(c)
           THEN /\ Finish("raised", c, session)
                /\ UNCHANGED <<stable_candidate, idx>>
           ELSE /\ stable_candidate' = c
                /\ idx' = IF Truthy(c) THEN 1 ELSE 0
                /\ Continue(IF Truthy(c) THEN "C_probe" ELSE "D")
    /\ UNCHANGED <<pkg, calls, session, upstream, data, doc_candidate, guess, unit>>

\* After the last refused probe of the stable/latest candidate the doc link
\* is probed once more
StepC_Probe_BackToB ==
    /\ pc = "C_probe"
    /\ LET url == test_url(_trimmed_of(stable_candidate), _expansions[idx])
       IN  \E resp \in Answers("HEAD", url, HeadResponses) :
            /\ Send("HEAD", url, resp)
            /\ IF Found(resp)
               THEN /\ Finish("returned", url, Append(session, Request("HEAD", url, resp)))
                    /\ idx' = idx
               ELSE IF idx < Len(_expansions)
               THEN /\ Continue(pc)
                    /\ idx' = idx + 1
               ELSE /\ Continue(IF Truthy(doc_candidate) THEN "B_probe" ELSE "D")
                    /\ idx' = 1
    /\ UNCHANGED <<pkg, calls, data, doc_candidate, stable_candidate, guess, unit>>

\* Step C: inv_url = _try_intersphinx_expansions(session, stable_candidate)
StepC_Probe ==
    /\ pc = "C_probe"
    /\ Probe(stable_candidate, "D")
    /\ UNCHANGED <<pkg, calls, data, doc_candidate, stable_candidate, guess, unit>>

\* gh_repo_link = _find_github_repo_in_project_urls(data)
gh_repo_link == _find_github_repo_in_project_urls(data)

\* Step D without a repository: no GitHub link, or one that does not parse
StepD_NoRepo ==
    /\ pc = "D"
    /\ IF IsExc(gh_repo_link)
       THEN Finish("raised", gh_repo_link, session)
       ELSE /\ \/ ~Truthy(gh_repo_link)
               \/ parse_github_repo_url(gh_repo_link) = None
            /\ Finish("returned", None, session)
    /\ UNCHANGED <<pkg, calls, session, upstream, locals, unit>>

\* Step D: fetch docs-python.yml, parse the stable subfolder, build the guess
StepD_Workflow ==
    /\ pc = "D"
    /\ ~IsExc(gh_repo_link)
    /\ Truthy(gh_repo_link)
    /\ parse_github_repo_url(gh_repo_link) # None
    /\ LET orgrepo_ == parse_github_repo_url(gh_repo_link)
           url == workflow_url(orgrepo_[1], orgrepo_[2])
       IN  \E resp \in Answers("GET", url, WorkflowResponses) :
            LET workflow_text == _fetch_docs_python_yml(resp)
                stable_tf == parse_stable_subfolder(WorkflowYaml(workflow_text))
                sent == Append(session, Request("GET", url, resp))
            IN  /\ Send("GET", url, resp)
                /\ IF workflow_text = ""
                   THEN /\ Finish("returned", None, sent)
                        /\ guess' = guess
                   ELSE IF IsExc(stable_tf)
                   THEN /\ Finish("raised", stable_tf, sent)
                        /\ guess' = guess
                   ELSE IF ~Truthy(stable_tf)
                   THEN /\ Finish("returned", None, sent)
                        /\ guess' = guess
                   ELSE /\ guess' = guess_of(domain_of(doc_candidate, stable_candidate),
                                             stable_tf)
                        /\ Continue("D_head")
    /\ UNCHANGED <<pkg, calls, data, doc_candidate, stable_candidate, idx, unit>>

\* A refused guess sends the call back to Step C
StepD_Head_Backtrack ==
    /\ pc = "D_head"
    /\ \E resp \in Answers("HEAD", guess, HeadResponses) :
        LET sent == Append(session, Request("HEAD", guess, resp))
        IN  /\ Send("HEAD", guess, resp)
            /\ IF resp.exc THEN Finish("raised", RequestException, sent)
               ELSE IF resp.status = 200 THEN Finish("returned", guess, sent)
               ELSE Continue("C")
    /\ UNCHANGED <<pkg, calls, locals, unit>>

\* Step D: resp = session.head(guess), outside any try
StepD_Head ==
    /\ pc = "D_head"
    /\ \E resp \in Answers("HEAD", guess, HeadResponses) :
        LET sent == Append(session, Request("HEAD", guess, resp))
        IN  /\ Send("HEAD", guess, resp)
            /\ IF resp.exc THEN Finish("raised", RequestException, sent)
               ELSE IF resp.status = 200 THEN Finish("returned", guess, sent)
               ELSE Finish("returned", None, sent)
    /\ UNCHANGED <<pkg, calls, locals, unit>>

Init ==
    /\ pkg \in Packages
    /\ calls = 0
    /\ pc = "idle"
    /\ session = <<>>
    /\ data = NoData
    /\ doc_candidate = None
    /\ stable_candidate = None
    /\ idx = 0
    /\ guess = None
    /\ result = None
    /\ outcome = "running"
    /\ upstream = {}
    /\ config = None
    /\ subfolder = None
    /\ finished = <<>>
    /\ base_url = None
    /\ link = None
    /\ orgrepo = None
    /\ parked = NoThread

Next ==
    \/ Call
    \/ StepA
    \/ StepB_Find
    \/ StepB_Probe
    \/ StepC_Find
    \/ StepC_Probe
    \/ StepD_NoRepo
    \/ StepD_Workflow
    \/ StepD_Head

Spec == Init /\ [][Next]_vars

(***************************************************************************)
(* try_intersphinx_expansions (docs_intersphinx.py) called on its own.     *)
(***************************************************************************)

Bases ==
    { <<"h","t","t","p","s",":","/","/","n","u","m","p","y",".","o","r","g","/","d","o","c","/">>,
      <<" ","h","t","t","p","s",":","/","/","x",".","i","o","/","a",".","h","t","m","l"," ">>,
      <<"h","t","t","p","s",":","/","/","x",".","i","o","/","b",".","h","t","m">>,
      <<"h","t","t","p","s",":","/","/","x",".","i","o","/","c","/","/">>,
      <<"h","t","t","p","s",":","/","/","x",".","i","o">>,
      <<"h","t","t","p","s",":","/","/","x",".","i","o","/","d",".","h","t","m","l","/">>,
      <<"h","t","t","p","s",":","/","/","x",".","i","o","/","e","/",".","h","t","m","l">>,
      <<"h","t","t","p","s",":","/","/","x",".","i","o","/","f",".","h","t","m","l",".","h","t","m">> }

\* One turn of the loop of try_intersphinx_expansions(session, base_url)
Try ==
    /\ pc = "T_probe"
    /\ LET url == test_url(trimmed_of(base_url), expansions[idx])
       IN  \E resp \in Answers("HEAD", url, HeadResponses) :
            /\ Send("HEAD", url, resp)
            /\ IF Found(resp)
               THEN /\ Finish("returned", url, Append(session, Request("HEAD", url, resp)))
                    /\ idx' = idx
               ELSE IF idx < Len(expansions)
               THEN /\ Continue(pc)
                    /\ idx' = idx + 1
               ELSE /\ Finish("returned", None, Append(session, Request("HEAD", url, resp)))
                    /\ idx' = idx
    /\ UNCHANGED <<pkg, calls, data, doc_candidate, stable_candidate, guess, unit>>

InitProber ==
    /\ base_url \in Bases
    /\ pc = "T_probe"
    /\ idx = 1
    /\ pkg = None
    /\ calls = 0
    /\ session = NewSession
    /\ data = NoData
    /\ doc_candidate = None
    /\ stable_candidate = None
    /\ guess = None
    /\ result = None
    /\ outcome = "running"
    /\ upstream = {}
    /\ config = None
    /\ subfolder = None
    /\ finished = <<>>
    /\ link = None
    /\ orgrepo = None
    /\ parked = NoThread

NextProber == Try

SpecProber == InitProber /\ [][NextProber]_vars

(***************************************************************************)
(* parse_github_repo_url (github_integration.py) called on its own.        *)
(***************************************************************************)

LinkHosts ==
    { <<"h","t","t","p","s",":","/","/","g","i","t","h","u","b",".","c","o","m","/">>, <<"h","t","t","p",":","/","/","g","i","t","h","u","b",".","c","o","m","/">>, <<"h","t","t","p","s",":","/","/","w","w","w",".","g","i","t","h","u","b",".","c","o","m","/">>,
      <<"h","t","t","p","s",":","/","/","g","i","t","l","a","b",".","c","o","m","/">>, <<"h","t","t","p","s",":","/","/","g","i","t","h","u","b",".","c","o","m">> }

LinkOrgs == { <<"p","o","l","a","-","r","s">>, <<"x">> }

LinkRepos == { <<"p","o","l","a","r","s">>, <<"p","o","l","a","r","s",".","g","i","t">>, <<"y",".","g","i","t",".","g","i","t">> }

LinkTails == { <<>>, <<"/">>, <<"/","i","s","s","u","e","s">>, <<"/","t","r","e","e","/","m","a","i","n","/","d","o","c","s">>, <<"#","r","e","a","d","m","e">>, <<"?","t","a","b","=","r","e","a","d","m","e">> }

GithubLinks ==
    {h \o o \o <<"/">> \o r \o t :
        h \in LinkHosts, o \in LinkOrgs, r \in LinkRepos, t \in LinkTails}
    \cup {h \o o \o t : h \in LinkHosts, o \in LinkOrgs, t \in {<<>>, <<"/">>, <<"/",".","g","i","t">>}}

\* orgrepo = parse_github_repo_url(link)
Parse ==
    /\ pc = "parse"
    /\ orgrepo' = parse_github_repo_url(link)
    /\ pc' = "parsed"
    /\ UNCHANGED <<pkg, calls, session, locals, result, outcome, upstream, finished,
                   base_url, link, parked, config, subfolder>>

InitParse ==
    /\ link \in GithubLinks
    /\ orgrepo = None
    /\ pc = "parse"
    /\ idx = 0
    /\ pkg = None
    /\ calls = 0
    /\ session = NewSession
    /\ data = NoData
    /\ doc_candidate = None
    /\ stable_candidate = None
    /\ guess = None
    /\ result = None
    /\ outcome = "running"
    /\ upstream = {}
    /\ config = None
    /\ subfolder = None
    /\ finished = <<>>
    /\ base_url = None
    /\ parked = NoThread

NextParse == Parse

SpecParse == InitParse /\ [][NextParse]_vars


(***************************************************************************)
(* find_doc_url_candidate and find_stable_latest_link (pypi_api.py)        *)
(* called on their own, on one metadata document.                          *)
(***************************************************************************)

MetaLabels == { <<"D","o","c","u","m","e","n","t","a","t","i","o","n">>, <<"A","P","I"," ","D","o","c","s">>, <<"C","h","a","n","g","e","l","o","g">>, <<"S","o","u","r","c","e">> }

MetaLinks ==
    { <<"h","t","t","p","s",":","/","/","x",".","o","r","g","/","e","n","/","s","t","a","b","l","e","/","c","h","a","n","g","e","l","o","g",".","h","t","m","l">>,
      <<"h","t","t","p","s",":","/","/","x",".","o","r","g","/","s","t","a","b","l","e","/","e","n","/","l","a","t","e","s","t","/">>,
      <<"h","t","t","p","s",":","/","/","x",".","o","r","g","/","l","a","t","e","s","t">>,
      <<"h","t","t","p","s",":","/","/","x",".","o","r","g","/","u","n","s","t","a","b","l","e","/">>,
      <<"h","t","t","p","s",":","/","/","g","i","t","h","u","b",".","c","o","m","/","o","/","r">>,
      None }

MetaHomes == { None, <<"h","t","t","p","s",":","/","/","x",".","o","r","g","/">>, <<"h","t","t","p","s",":","/","/","p",".","R","e","a","d","T","h","e","D","o","c","s",".","i","o","/","e","n","/","l","a","t","e","s","t">>,
               <<"h","t","t","p","s",":","/","/","x",".","o","r","g","/","s","t","a","b","l","e","x","/","s","t","a","b","l","e","/">> }

\* project_urls with no, one or two links, under different labels
MetaMappings ==
    {<<>>}
    \cup {<< Link(l, u) >> : l \in MetaLabels, u \in MetaLinks}
    \cup {<< Link(q[1], q[2]), Link(q[3], q[4]) >> :
            q \in {r \in MetaLabels \X MetaLinks \X MetaLabels \X MetaLinks :
                        r[1] # r[3] /\ r[2] # r[4]}}

MetaDocs ==
    {Meta("object", "map", m, h) : m \in MetaMappings, h \in MetaHomes}
    \cup {Meta("object", "missing", <<>>, h) : h \in MetaHomes}

\* doc_candidate = find_doc_url_candidate(data)
FindDoc ==
    /\ pc = "find"
    /\ doc_candidate' = find_doc_url_candidate(data)
    /\ pc' = "found_doc"
    /\ UNCHANGED <<pkg, calls, session, data, stable_candidate, idx, guess, result,
                   outcome, upstream, finished, unit>>

\* stable_candidate = find_stable_latest_link(data)
FindStable ==
    /\ pc = "find"
    /\ stable_candidate' = find_stable_latest_link(data)
    /\ pc' = "found_stable"
    /\ UNCHANGED <<pkg, calls, session, data, doc_candidate, idx, guess, result,
                   outcome, upstream, finished, unit>>

InitMetadata ==
    /\ data \in MetaDocs
    /\ pc = "find"
    /\ doc_candidate = None
    /\ stable_candidate = None
    /\ idx = 0
    /\ pkg = None
    /\ calls = 0
    /\ session = NewSession
    /\ guess = None
    /\ result = None
    /\ outcome = "running"
    /\ upstream = {}
    /\ config = None
    /\ subfolder = None
    /\ finished = <<>>
    /\ base_url = None
    /\ link = None
    /\ orgrepo = None
    /\ parked = NoThread

NextMetadata ==
    \/ FindDoc
    \/ FindStable

SpecMetadata == InitMetadata /\ [][NextMetadata]_vars

(***************************************************************************)
(* parse_stable_subfolder (github_integration.py) called on its own, on    *)
(* one workflow text.                                                      *)
(***************************************************************************)

WorkflowSteps ==
    { Step("none", None),
      Step("map", None),
      Step("map", <<"d","e","v">>),
      Step("map", <<"a","p","i","/","p","y","t","h","o","n","/","s","t","a","b","l","e">>),
      Step("map", <<"/","s","t","a","b","l","e","/">>),
      Step("map", Number),
      Step("str", None),
      TextStep }

\* The steps of a job: none, one or two
StepLists ==
    {<<>>} \cup {<<a>> : a \in WorkflowSteps}
           \cup {<<a, b>> : a \in WorkflowSteps, b \in WorkflowSteps}

\* The steps of the jobs other than build-python-docs
OtherJobs == { <<>>, << Step("map", <<"o","t","h","e","r","/","s","t","a","b","l","e">>) >> }

\* yaml.safe_load of the workflow texts
WorkflowDocs ==
    {Config(top, "missing", "missing", "missing", <<>>, <<>>) :
        top \in {"error", "null", "scalar", "list", "map"}}
    \cup {Config("map", jobs, "missing", "missing", <<>>, <<>>) : jobs \in {"null", "list"}}
    \cup {Config("map", "map", job, "missing", <<>>, o) :
            job \in {"missing", "null", "list"}, o \in OtherJobs}
    \cup {Config("map", "map", "map", k, <<>>, o) :
            k \in {"missing", "null", "str"}, o \in OtherJobs}
    \cup {Config("map", "map", "map", "list", steps, o) :
            steps \in StepLists, o \in OtherJobs}

\* subfolder = parse_stable_subfolder(workflow_text)
ParseSubfolder ==
    /\ pc = "parse_folder"
    /\ subfolder' = parse_stable_subfolder(config)
    /\ pc' = "folder_parsed"
    /\ UNCHANGED <<pkg, calls, session, locals, result, outcome, upstream, finished,
                   base_url, link, orgrepo, parked, config>>

InitWorkflow ==
    /\ config \in WorkflowDocs
    /\ subfolder = None
    /\ pc = "parse_folder"
    /\ data = NoData
    /\ doc_candidate = None
    /\ stable_candidate = None
    /\ idx = 0
    /\ pkg = None
    /\ calls = 0
    /\ session = NewSession
    /\ guess = None
    /\ result = None
    /\ outcome = "running"
    /\ upstream = {}
    /\ finished = <<>>
    /\ base_url = None
    /\ link = None
    /\ orgrepo = None
    /\ parked = NoThread

NextWorkflow == ParseSubfolder

SpecWorkflow == InitWorkflow /\ [][NextWorkflow]_vars

(***************************************************************************)
(* Two threads, each calling get_intersphinx_url for its own package.      *)
(* Everything a call works on is a local of its frame (core.py has no      *)
(* module-level state, and the Session is created inside the call), so a   *)
(* thread switch exchanges the whole frame and nothing else.               *)
(***************************************************************************)

\* A call is under way at this position
Midway(at) == at \notin {"idle", "done"}

\* The packages of the two threads
ThreadPackages == << <<"s","b","a","s","e">>, <<"n","o","l","i","n","k","s">> >>

\* A thread that has not called yet
Idle(p) == Frame(p, "idle", <<>>, NoData, None, None, 0, None, None, "running")

\* The Session is a module-level object that both threads use
Switch_SharedSession ==
    /\ parked.pc # "none"
    /\ parked' = Frame(pkg, pc, session, data, doc_candidate, stable_candidate,
                       idx, guess, result, outcome)
    /\ pkg' = parked.pkg
    /\ pc' = parked.pc
    /\ data' = parked.data
    /\ doc_candidate' = parked.doc_candidate
    /\ stable_candidate' = parked.stable_candidate
    /\ idx' = parked.idx
    /\ guess' = parked.guess
    /\ result' = parked.result
    /\ outcome' = parked.outcome
    /\ UNCHANGED <<session, calls, upstream, finished, base_url, link, orgrepo,
                   config, subfolder>>

\* The interpreter switches threads: the running call is suspended with its
\* frame, the call of the other thread goes on where it stood
Switch ==
    /\ parked.pc # "none"
    /\ parked' = Frame(pkg, pc, session, data, doc_candidate, stable_candidate,
                       idx, guess, result, outcome)
    /\ pkg' = parked.pkg
    /\ pc' = parked.pc
    /\ session' = parked.session
    /\ data' = parked.data
    /\ doc_candidate' = parked.doc_candidate
    /\ stable_candidate' = parked.stable_candidate
    /\ idx' = parked.idx
    /\ guess' = parked.guess
    /\ result' = parked.result
    /\ outcome' = parked.outcome
    /\ UNCHANGED <<calls, upstream, finished, base_url, link, orgrepo,
                   config, subfolder>>

InitThreads ==
    /\ pkg = ThreadPackages[1]
    /\ parked = Idle(ThreadPackages[2])
    /\ calls = 0
    /\ pc = "idle"
    /\ session = <<>>
    /\ data = NoData
    /\ doc_candidate = None
    /\ stable_candidate = None
    /\ idx = 0
    /\ guess = None
    /\ result = None
    /\ outcome = "running"
    /\ upstream = {}
    /\ config = None
    /\ subfolder = None
    /\ finished = <<>>
    /\ base_url = None
    /\ link = None
    /\ orgrepo = None

NextThreads ==
    \/ Call
    \/ StepA
    \/ StepB_Find
    \/ StepB_Probe
    \/ StepC_Find
    \/ StepC_Probe
    \/ StepD_NoRepo
    \/ StepD_Workflow
    \/ StepD_Head
    \/ Switch

SpecThreads == InitThreads /\ [][NextThreads]_vars

(***************************************************************************)
(* get_intersphinx_url as one function of what the services answer: the    *)
(* call run on its own, from its first line to its return.                 *)
(***************************************************************************)

\* What the services answer to this request: upstream is steady, so it is what
\* they answered before (status 0 stands for a request never answered)
Answer(method, url) ==
    LET known == {e \in upstream : e.method = method /\ e.url = url}
    IN  IF known = {} THEN Resp(0, "") ELSE (CHOOSE e \in known : TRUE).resp

\* The requests of the loop of _try_intersphinx_expansions from suffix i on:
\* it stops at the first 200, or after the last suffix
RECURSIVE ExpansionsFrom(_, _)
ExpansionsFrom(candidate, i) ==
    LET url == test_url(_trimmed_of(candidate), _expansions[i])
        r == Request("HEAD", url, Answer("HEAD", url))
    IN  IF Found(r.resp) \/ i = Len(_expansions)
        THEN <<r>>
        ELSE <<r>> \o ExpansionsFrom(candidate, i + 1)

\* The requests of _try_intersphinx_expansions(session, candidate); none for
\* a candidate that is None or empty, on which it is not called
Expansions(candidate) == IF Truthy(candidate) THEN ExpansionsFrom(candidate, 1) ELSE <<>>

\* inv_url: the probes ended on a 200
Hit(probes) == probes # <<>> /\ Found(probes[Len(probes)].resp)

Ended(p, how, value, sent) == [pkg |-> p, session |-> sent, result |-> value, outcome |-> how]

\* Step D of the call, after the requests `sent`
FallbackAlone(p, d, dc, sc, sent) ==
    LET gh == _find_github_repo_in_project_urls(d)
        orgrepo_ == parse_github_repo_url(gh)
        wf == Request("GET", workflow_url(orgrepo_[1], orgrepo_[2]),
                      Answer("GET", workflow_url(orgrepo_[1], orgrepo_[2])))
        workflow_text == _fetch_docs_python_yml(wf.resp)
        stable_tf == parse_stable_subfolder(WorkflowYaml(workflow_text))
        guess_ == guess_of(domain_of(dc, sc), stable_tf)
        hd == Request("HEAD", guess_, Answer("HEAD", guess_))
    IN  IF IsExc(gh) THEN Ended(p, "raised", gh, sent)
        ELSE IF ~Truthy(gh) THEN Ended(p, "returned", None, sent)
        ELSE IF orgrepo_ = None THEN Ended(p, "returned", None, sent)
        ELSE IF workflow_text = "" THEN Ended(p, "returned", None, Append(sent, wf))
        ELSE IF IsExc(stable_tf) THEN Ended(p, "raised", stable_tf, Append(sent, wf))
        ELSE IF ~Truthy(stable_tf) THEN Ended(p, "returned", None, Append(sent, wf))
        ELSE IF hd.resp.exc THEN Ended(p, "raised", RequestException, sent \o <<wf, hd>>)
        ELSE IF hd.resp.status = 200 THEN Ended(p, "returned", guess_, sent \o <<wf, hd>>)
        ELSE Ended(p, "returned", None, sent \o <<wf, hd>>)

\* get_intersphinx_url(p), run alone
RunAlone(p) ==
    LET meta == Request("GET", pypi_url(p), Answer("GET", pypi_url(p)))
        d == _fetch_pypi_json(meta.resp)
        dc == _find_doc_url_candidate(d)
        probesB == Expansions(dc)
        sc == _find_stable_latest_link(d)
        probesC == Expansions(sc)
    IN  IF ~DataTruthy(d) THEN Ended(p, "returned", None, <<meta>>)
        ELSE IF IsExc(dc) THEN Ended(p, "raised", dc, <<meta>>)
        ELSE IF Hit(probesB)
             THEN Ended(p, "returned", probesB[Len(probesB)].url, <<meta>> \o probesB)
        ELSE IF IsExc(sc) THEN Ended(p, "raised", sc, <<meta>> \o probesB)
        ELSE IF Hit(probesC)
             THEN Ended(p, "returned", probesC[Len(probesC)].url,
                        <<meta>> \o probesB \o probesC)
        ELSE FallbackAlone(p, d, dc, sc, <<meta>> \o probesB \o probesC)
(***************************************************************************)
(* Properties.                                                             *)
(***************************************************************************)

Is200(resp) == ~resp.exc /\ resp.status = 200

IsHead(e) == e.method = "HEAD"

\* The request e is a HEAD on url that did not return 200 (another status, or a failure)
Refused(e, url) == IsHead(e) /\ e.url = url /\ ~Is200(e.resp)

Slashes(k) == [i \in 1..k |-> "/"]

\* n is the normalised base of B: B without surrounding whitespace is n, then
\* "/" any number of times, then one ".html" or ".htm" if B ends in one; n
\* ends in no "/"
IsNormOf(n, B) ==
    LET t == Strip(B)
    IN  \E ext \in {<<>>, <<".","h","t","m","l">>, <<".","h","t","m">>} :
            LET k == Len(t) - Len(n) - Len(ext)
            IN  /\ k >= 0
                /\ t = n \o Slashes(k) \o ext
                /\ n = <<>> \/ n[Len(n)] # "/"
                /\ ext = <<>> => ~EndsWith(t, <<".","h","t","m","l">>) /\ ~EndsWith(t, <<".","h","t","m">>)

\* The suffix list of the Prober, as the specification gives it
SuffixList ==
    << <<"o","b","j","e","c","t","s",".","i","n","v">>, <<"s","t","a","b","l","e","/","o","b","j","e","c","t","s",".","i","n","v">>, <<"e","n","/","s","t","a","b","l","e","/","o","b","j","e","c","t","s",".","i","n","v">>,
       <<"l","a","t","e","s","t","/","o","b","j","e","c","t","s",".","i","n","v">>, <<"e","n","/","l","a","t","e","s","t","/","o","b","j","e","c","t","s",".","i","n","v">>, <<"d","o","c","/","o","b","j","e","c","t","s",".","i","n","v">>,
       <<"d","o","c","s","/","o","b","j","e","c","t","s",".","i","n","v">> >>

\* url is the j-th URL the Prober tries on base B
IsProbeOf(url, B, j) ==
    LET tail == <<"/">> \o SuffixList[j]
    IN  /\ EndsWith(url, tail)
        /\ IsNormOf(SubSeq(url, 1, Len(url) - Len(tail)), B)

\* C1: every call of get_intersphinx_url ends by returning, never by an
\* exception; in particular a call whose last request failed (a timeout, a
\* connection failure), the single HEAD of the fallback included, returns None.
C1_ReturnsNormally ==
    (pc = "done" /\ session # <<>> /\ session[Len(session)].resp.exc) =>
        /\ outcome = "returned"
        /\ result = None

\* C2: a returned value other than None is a URL ending in "objects.inv" on
\* which a HEAD request of this same call returned status 200.
C2_ResultProbed200 ==
    (outcome = "returned" /\ result # None) =>
        /\ EndsWith(result, <<"o","b","j","e","c","t","s",".","i","n","v">>)
        /\ \E i \in 1..Len(session) :
            IsHead(session[i]) /\ session[i].url = result /\ Is200(session[i].resp)

\* C2 witness: a URL is returned after a probe that failed and a probe that
\* returned another status.
C2_Witness ==
    /\ outcome = "returned"
    /\ result # None
    /\ \E i \in 1..Len(session) : session[i].resp.exc
    /\ \E i \in 1..Len(session) : IsHead(session[i]) /\ session[i].resp.status = 404

\* The links of the metadata d whose label, lowercased, contains "doc"
DocLabelled(d) ==
    {i \in 1..Len(d.urls) : d.purls = "map" /\ Contains(Lower(d.urls[i][1]), <<"d","o","c">>)}

\* The metadata d exposes a doc-labelled link, which is a non-empty str
HasDocLink(d) ==
    /\ d.json = "object"
    /\ DocLabelled(d) # {}
    /\ IsStr(d.urls[SetMin(DocLabelled(d))][2])
    /\ d.urls[SetMin(DocLabelled(d))][2] # <<>>

\* <root>/objects.inv for the first doc-labelled link of d
RootInventory(d) ==
    trimmed_of(d.urls[SetMin(DocLabelled(d))][2]) \o <<"/","o","b","j","e","c","t","s",".","i","n","v">>

\* C3: when the metadata exposes a doc-labelled link and <root>/objects.inv
\* is served (nothing in the call saw it refused), the call returns
\* <root>/objects.inv and sends no GET other than the metadata fetch: the
\* repository workflow is never fetched.
C3_DocLinkFirst ==
    (pc = "done" /\ HasDocLink(data)) =>
        \/ \E i \in 1..Len(session) : Refused(session[i], RootInventory(data))
        \/ /\ outcome = "returned"
           /\ result = RootInventory(data)
           /\ \A i \in 1..Len(session) : session[i].method = "GET" => i = 1

\* C3 witness: the "API Docs" link " https://x.io/a.html " resolves at its root.
C3_Witness ==
    /\ pc = "done"
    /\ data = MetaJson("docs_gh")
    /\ result = <<"h","t","t","p","s",":","/","/","x",".","i","o","/","a","/","o","b","j","e","c","t","s",".","i","n","v">>
    /\ Len(session) = 2

\* The metadata d has no project links (empty, missing or null) and no home page
NoLinks(d) ==
    /\ d.json \in {"object", "emptyobject"}
    /\ d.purls \in {"missing", "null"} \/ d.urls = <<>>
    /\ ~Truthy(d.home)

\* C4: with no project links (empty, missing or null mapping) and no home
\* page, the call returns None and the metadata fetch is its only request.
C4_NoLinksNoRequests ==
    (pc = "done" /\ Len(session) >= 1 /\ Is200(session[1].resp)
        /\ NoLinks(MetaJson(session[1].resp.body))) =>
        /\ outcome = "returned"
        /\ result = None
        /\ Len(session) = 1

\* C5: two calls for the same package, against services that answer every
\* request as before, send the same requests in the same order and end the
\* same way.
C5_Deterministic ==
    \A i \in 1..Len(finished) : \A j \in 1..Len(finished) :
        finished[i].pkg = finished[j].pkg => finished[i] = finished[j]

\* C5 witness: a second call has ended, after a run of probes and a result.
C5_Witness ==
    /\ Len(finished) = 2
    /\ Len(finished[2].session) >= 4
    /\ finished[2].result # None

\* C6: try_intersphinx_expansions probes norm(B)/s_1, norm(B)/s_2, ... in
\* the order of the list, goes on after a status other than 200 and after a
\* request failure alike, returns the first URL whose HEAD returned 200,
\* and returns None exactly when all seven did not.
C6_FirstSuffixThatAnswers200 ==
    pc = "done" =>
        /\ outcome = "returned"
        /\ Len(session) \in 1..7
        /\ \A j \in 1..Len(session) :
            IsHead(session[j]) /\ IsProbeOf(session[j].url, base_url, j)
        /\ \A j \in 1..(Len(session) - 1) : ~Is200(session[j].resp)
        /\ IF Is200(session[Len(session)].resp)
           THEN result = session[Len(session)].url
           ELSE Len(session) = 7 /\ result = None

\* C6 witness: the bare objects.inv fails, stable/objects.inv returns 200 and
\* is the result.
C6_Witness ==
    /\ pc = "done"
    /\ base_url = <<"h","t","t","p","s",":","/","/","n","u","m","p","y",".","o","r","g","/","d","o","c","/">>
    /\ Len(session) = 2
    /\ ~Is200(session[1].resp)
    /\ result = <<"h","t","t","p","s",":","/","/","n","u","m","p","y",".","o","r","g","/","d","o","c","/","s","t","a","b","l","e","/","o","b","j","e","c","t","s",".","i","n","v">>

\* The path of a GitHub URL: what follows "https://github.com/", up to the
\* query ("?") or fragment ("#")
PathOf(url) ==
    LET rest == Drop(url, Len(<<"h","t","t","p","s",":","/","/","g","i","t","h","u","b",".","c","o","m","/">>))
        cut == {i \in 1..Len(rest) : rest[i] \in {"?", "#"}}
    IN  IF cut = {} THEN rest ELSE SubSeq(rest, 1, SetMin(cut) - 1)

\* (org, repo) of a URL of the shape https://github.com/<org>/<repo>[/...],
\* None for any other URL
OrgRepoOf(url) ==
    LET org == Segment(PathOf(url))
        repo == Segment(Drop(PathOf(url), Len(org) + 1))
    IN  IF StartsWith(url, <<"h","t","t","p","s",":","/","/","g","i","t","h","u","b",".","c","o","m","/">>) /\ org # <<>> /\ repo # <<>>
        THEN <<org, RemoveSuffix(repo, <<".","g","i","t">>)>>
        ELSE None

\* C7: parse_github_repo_url returns the first two path segments after the
\* host of https://github.com/<org>/<repo>[/...], the repository without a
\* trailing ".git", and None for a URL of any other shape.
C7_OrgAndRepoSegments == pc = "parsed" => orgrepo = OrgRepoOf(link)

\* C8: in the fallback, when neither candidate exists, no URL is built and
\* no HEAD is sent: there is no host to probe.
C8_NoDefaultHost ==
    (pc \in {"D_head", "done"} /\ ~Truthy(doc_candidate) /\ ~Truthy(stable_candidate)) =>
        /\ guess = None
        /\ \A i \in 1..Len(session) : ~IsHead(session[i])

NumpyRoot == <<"h","t","t","p","s",":","/","/","n","u","m","p","y",".","o","r","g","/","d","o","c","/","o","b","j","e","c","t","s",".","i","n","v">>

NumpyStable == <<"h","t","t","p","s",":","/","/","n","u","m","p","y",".","o","r","g","/","d","o","c","/","s","t","a","b","l","e","/","o","b","j","e","c","t","s",".","i","n","v">>

\* C9: every URL probed for a candidate is its normalised base (whitespace
\* stripped, one trailing .html or .htm removed, then every trailing "/"
\* removed) + "/" + the suffix of its turn; so for "Documentation":
\* "https://numpy.org/doc/", with the root inventory refused and the stable
\* one served, exactly these two URLs are probed, in this order, and the
\* second is returned.
C9_ProbesNormalisedBase ==
    /\ pc = "B_probe" =>
        \A j \in 2..Len(session) :
            IsHead(session[j]) /\ IsProbeOf(session[j].url, doc_candidate, j - 1)
    /\ pc = "C_probe" =>
        \A j \in 1..(idx - 1) :
            /\ IsHead(session[Len(session) - (idx - 1) + j])
            /\ IsProbeOf(session[Len(session) - (idx - 1) + j].url, stable_candidate, j)
    /\ (pc = "done" /\ outcome = "returned" /\ result # None /\ guess = None) =>
        \E j \in 1..Len(SuffixList) :
            \/ Truthy(doc_candidate) /\ IsProbeOf(result, doc_candidate, j)
            \/ Truthy(stable_candidate) /\ IsProbeOf(result, stable_candidate, j)
    /\ (/\ pc = "done"
        /\ data = MetaJson("numpy")
        /\ \A e \in upstream : e.url = NumpyRoot => ~Is200(e.resp)
        /\ \A e \in upstream : e.url = NumpyStable => Is200(e.resp)) =>
        /\ Len(session) = 3
        /\ IsHead(session[2]) /\ session[2].url = NumpyRoot
        /\ IsHead(session[3]) /\ session[3].url = NumpyStable
        /\ outcome = "returned"
        /\ result = NumpyStable

\* C9 witness: the numpy scenario, with the root inventory refused.
C9_Witness ==
    /\ pc = "done"
    /\ data = MetaJson("numpy")
    /\ Len(session) = 3
    /\ Refused(session[2], NumpyRoot)
    /\ result = NumpyStable

\* The metadata fetch failed: request failure, a status other than success,
\* or a body that is not JSON
MetaFetchFailed(resp) ==
    \/ resp.exc
    \/ resp.status # 200
    \/ MetaJson(resp.body).json = "invalid"

\* C10: the metadata endpoint is requested once per call, first; when that
\* fetch fails the call returns None and sends nothing else.
C10_FailedFetchEndsCall ==
    /\ Cardinality({i \in 1..Len(session) : session[i].url = pypi_url(pkg)}) <= 1
    /\ pc \notin {"idle", "A"} =>
        /\ Len(session) >= 1
        /\ session[1].method = "GET"
        /\ session[1].url = pypi_url(pkg)
    /\ (Len(session) >= 1 /\ MetaFetchFailed(session[1].resp)) =>
        /\ pc = "done"
        /\ outcome = "returned"
        /\ result = None
        /\ Len(session) = 1

\* C10 witness: the registry answered 200 with a body that is not JSON.
C10_Witness ==
    /\ pc = "done"
    /\ Len(session) = 1
    /\ Is200(session[1].resp)
    /\ session[1].resp.body = "not_json"
    /\ result = None


\* C11: a call that ran interleaved with the call of another thread, for
\* another package, has sent the requests, and ends with the result, of the
\* same call run alone against the same answers of the services.
C11_ThreadsDoNotInterfere ==
    pc = "done" => Ended(pkg, outcome, result, session) = RunAlone(pkg)

\* C11 witness: a call has ended with a result after a run of probes while the
\* call of the other thread, which has sent its request, is suspended midway.
C11_Witness ==
    /\ pc = "done"
    /\ Len(session) >= 4
    /\ result # None
    /\ Midway(parked.pc)
    /\ Len(parked.session) >= 1
    /\ parked.pkg # pkg

\* C12: a result (org, repo) of parse_github_repo_url other than None is a
\* RepositoryRef: org and repo are not empty, neither holds a "/", and repo
\* does not end in ".git".
C12_RepositoryRef ==
    (pc = "parsed" /\ orgrepo # None) =>
        /\ orgrepo[1] # <<>>
        /\ orgrepo[2] # <<>>
        /\ ~Contains(orgrepo[1], <<"/">>)
        /\ ~Contains(orgrepo[2], <<"/">>)
        /\ ~EndsWith(orgrepo[2], <<".","g","i","t">>)

\* The places of the workflow fetch in the requests of the running call
WorkflowAt ==
    {i \in 1..Len(session) :
        /\ session[i].method = "GET"
        /\ StartsWith(session[i].url, <<"h","t","t","p","s",":","/","/","r","a","w",".","g","i","t","h","u","b","u","s","e","r","c","o","n","t","e","n","t",".","c","o","m","/">>)}

\* The "target-folder" values of the workflow served in resp that contain "stable"
StableFolders(resp) ==
    LET steps == WorkflowYaml(resp.body).steps
    IN  {steps[i].tf : i \in {k \in 1..Len(steps) :
            /\ steps[k].with = "map"
            /\ IsStr(steps[k].tf)
            /\ Contains(steps[k].tf, <<"s","t","a","b","l","e">>)}}

\* url is https://<domain>/<subfolder>/objects.inv for a stable subfolder of
\* the workflow served in resp, without its leading and trailing "/"
IsGuessOf(url, resp) ==
    LET domain == Segment(Drop(url, Len(<<"h","t","t","p","s",":","/","/">>)))
    IN  /\ StartsWith(url, <<"h","t","t","p","s",":","/","/">>)
        /\ domain # <<>>
        /\ \E tf \in StableFolders(resp) :
            url = <<"h","t","t","p","s",":","/","/">> \o domain \o <<"/">> \o StripSlash(tf) \o <<"/","o","b","j","e","c","t","s",".","i","n","v">>

\* C13: after the workflow fetch at most one request follows, the HEAD on
\* https://<domain>/<subfolder>/objects.inv, and the call ends with it: a 200
\* returns that URL, another status returns None, and no suffix is probed
\* against the guess or anything else.
C13_NoBacktracking ==
    \A w \in WorkflowAt :
        /\ Len(session) <= w + 1
        /\ Len(session) = w + 1 =>
            /\ IsHead(session[w + 1])
            /\ IsGuessOf(session[w + 1].url, session[w].resp)
            /\ pc = "done"
            /\ Is200(session[w + 1].resp) =>
                outcome = "returned" /\ result = session[w + 1].url
            /\ (~session[w + 1].resp.exc /\ ~Is200(session[w + 1].resp)) =>
                outcome = "returned" /\ result = None

\* C13 witness: five probes of the doc link, the workflow fetch, and the guess
\* on the host of the doc link refused with a 404: the call has returned None.
C13_Witness ==
    /\ pc = "done"
    /\ Len(session) = 8
    /\ 7 \in WorkflowAt
    /\ session[8].url = <<"h","t","t","p","s",":","/","/","x",".","i","o","/","a","p","i","/","p","y","t","h","o","n","/","s","t","a","b","l","e","/","o","b","j","e","c","t","s",".","i","n","v">>
    /\ session[8].resp.status = 404
    /\ result = None

\* C14: no request that failed, or was answered with a status other than
\* 200, is sent a second time in the same call.
C14_NoRetry ==
    \A i \in 1..Len(session) : \A j \in 1..Len(session) :
        (/\ i < j
         /\ session[i].method = session[j].method
         /\ session[i].url = session[j].url) => Is200(session[i].resp)

\* The URLs that find_stable_latest_link scans: the values of the mapping in
\* its order, then the home page if there is one
Scanned(d) ==
    [i \in 1..Len(d.urls) |-> d.urls[i][2]]
        \o (IF Truthy(d.home) THEN <<d.home>> ELSE <<>>)

\* The places where a path segment "stable" or "latest" of u ends: it follows
\* a "/" and is followed by a "/" or by the end of u
SegmentEnds(u) ==
    IF ~IsStr(u) THEN {}
    ELSE {e \in 7..Len(u) :
            /\ SubSeq(u, e - 6, e) \in {<<"/","s","t","a","b","l","e">>, <<"/","l","a","t","e","s","t">>}
            /\ e = Len(u) \/ u[e + 1] = "/"}

\* The first scanned URL with such a segment
FirstWithSegment(d) ==
    Scanned(d)[SetMin({i \in 1..Len(Scanned(d)) : SegmentEnds(Scanned(d)[i]) # {}})]

NoneHasSegment(d) == \A i \in 1..Len(Scanned(d)) : SegmentEnds(Scanned(d)[i]) = {}

DocsHome(d) ==
    /\ Truthy(d.home)
    /\ \/ Contains(Lower(d.home), <<"r","e","a","d","t","h","e","d","o","c","s">>)
       \/ Contains(Lower(d.home), <<"d","o","c","s">>)

\* The links of d whose URL contains the text "stable" or "latest"
StableValued(d) ==
    {i \in 1..Len(d.urls) :
        /\ IsStr(d.urls[i][2])
        /\ Contains(d.urls[i][2], <<"s","t","a","b","l","e">>) \/ Contains(d.urls[i][2], <<"l","a","t","e","s","t">>)}

GithubAt(d) ==
    {i \in 1..Len(Scanned(d)) :
        IsStr(Scanned(d)[i]) /\ Contains(Lower(Scanned(d)[i]), <<"g","i","t","h","u","b",".","c","o","m">>)}

\* The first of them
FirstGithub(d) == Scanned(d)[SetMin(GithubAt(d))]

\* u has the shape https://github.com/<org>/<repo>[/...]
WellShaped(u) ==
    LET rest == Drop(u, Len(<<"h","t","t","p","s",":","/","/","g","i","t","h","u","b",".","c","o","m","/">>))
        org == Segment(rest)
    IN  /\ StartsWith(u, <<"h","t","t","p","s",":","/","/","g","i","t","h","u","b",".","c","o","m","/">>)
        /\ org # <<>>
        /\ Segment(Drop(rest, Len(org) + 1)) # <<>>

\* C17: when the first URL of the metadata that holds "github.com" does not
\* have the shape the Repository Locator accepts, the call sends no workflow
\* fetch, whatever GitHub URLs follow it, and, unless a probe of Step B or C
\* found an inventory, returns None.
C17_FirstGithubOnly ==
    (/\ pc = "done"
     /\ data.json = "object"
     /\ data.purls = "map"
     /\ GithubAt(data) # {}
     /\ ~WellShaped(FirstGithub(data))) =>
        /\ WorkflowAt = {}
        /\ (\A i \in 1..Len(session) : ~(IsHead(session[i]) /\ Is200(session[i].resp))) =>
                outcome = "returned" /\ result = None

\* C17 witness: "http://github.com/o/r" comes first and is rejected; the
\* link "https://github.com/o/r" after it is not tried.
C17_Witness ==
    /\ pc = "done"
    /\ data = MetaJson("gh_rejected")
    /\ Len(session) = 1
    /\ outcome = "returned"
    /\ result = None

\* The workflow c is malformed for parse_stable_subfolder: not YAML, a top
\* level that is no mapping, "jobs", "build-python-docs" or "steps" null or
\* of a wrong type, a step that is no mapping, or a "target-folder" that is
\* no str
Malformed(c) ==
    \/ c.yaml # "map"
    \/ c.jobs \in {"null", "list"}
    \/ c.job \in {"null", "list"}
    \/ c.stepsKind \in {"null", "str"}
    \/ \E i \in 1..Len(c.steps) :
        \/ c.steps[i].kind # "map"
        \/ c.steps[i].with = "map" /\ c.steps[i].tf # None /\ ~IsStr(c.steps[i].tf)

\* C18: for a malformed workflow parse_stable_subfolder returns None; it
\* raises nothing.
C18_MalformedGivesNone ==
    (pc = "folder_parsed" /\ Malformed(config)) => subfolder = None

\* The steps of c that have a "with" mapping whose "target-folder" is a str
\* containing "stable"
Matching(c) ==
    {i \in 1..Len(c.steps) :
        /\ c.steps[i].with = "map"
        /\ IsStr(c.steps[i].tf)
        /\ Contains(c.steps[i].tf, <<"s","t","a","b","l","e">>)}

\* C19: for a well-formed workflow the result is the target-folder of the
\* first matching step of the job build-python-docs, and None iff that job
\* has no matching step; later matching steps and the steps of other jobs
\* change nothing.
C19_FirstMatchingStep ==
    (pc = "folder_parsed" /\ ~Malformed(config)) =>
        IF Matching(config) = {} THEN subfolder = None
        ELSE subfolder = config.steps[SetMin(Matching(config))].tf

\* C19 witness: another job has a matching step, and build-python-docs has
\* two: the result is the first of the two.
C19_Witness ==
    /\ pc = "folder_parsed"
    /\ config.others # <<>>
    /\ config.steps = << Step("map", <<"a","p","i","/","p","y","t","h","o","n","/","s","t","a","b","l","e">>), Step("map", <<"/","s","t","a","b","l","e","/">>) >>
    /\ subfolder = <<"a","p","i","/","p","y","t","h","o","n","/","s","t","a","b","l","e">>

\* The address of docs-python.yml on the branch main of the repository that
\* the GitHub URL u names
WorkflowAddress(u) ==
    <<"h","t","t","p","s",":","/","/","r","a","w",".","g","i","t","h","u","b","u","s","e","r","c","o","n","t","e","n","t",".","c","o","m","/">> \o OrgRepoOf(u)[1] \o <<"/">> \o OrgRepoOf(u)[2]
        \o <<"/","m","a","i","n","/",".","g","i","t","h","u","b","/","w","o","r","k","f","l","o","w","s","/","d","o","c","s","-","p","y","t","h","o","n",".","y","m","l">>

\* C20: a call fetches the workflow at most once, from the branch main of the
\* repository of its GitHub link; a fetch that fails, or is answered with a
\* status other than 200, is the last request of the call, which returns
\* None; a body served with 200 that names a stable folder is followed by
\* the one HEAD request.
C20_WorkflowFetchedOnce ==
    /\ Cardinality(WorkflowAt) <= 1
    /\ \A w \in WorkflowAt :
        /\ GithubAt(data) # {}
        /\ session[w].url = WorkflowAddress(FirstGithub(data))
        /\ ~Is200(session[w].resp) =>
            /\ pc = "done"
            /\ outcome = "returned"
            /\ result = None
            /\ Len(session) = w
        /\ (Is200(session[w].resp) /\ StableFolders(session[w].resp) # {} /\ pc = "done") =>
            Len(session) = w + 1

\* C20 witness: after five refused probes of the doc link the workflow of
\* o/r is asked for and answered with 404: the call has returned None.
C20_Witness ==
    /\ pc = "done"
    /\ Len(session) = 7
    /\ session[7].url =
        <<"h","t","t","p","s",":","/","/","r","a","w",".","g","i","t","h","u","b","u","s","e","r","c","o","n","t","e","n","t",".","c","o","m","/","o","/","r","/","m","a","i","n","/",".","g","i","t","h","u","b","/","w","o","r","k","f","l","o","w","s","/","d","o","c","s","-","p","y","t","h","o","n",".","y","m","l">>
    /\ session[7].resp.status = 404
    /\ result = None
    /\ outcome = "returned"

\* The host of the URL u: what stands between "http://" or "https://" and
\* the next "/", or the end of u
HostOf(u) ==
    LET t == Strip(u)
    IN  IF StartsWith(t, <<"h","t","t","p","s",":","/","/">>) THEN Segment(Drop(t, Len(<<"h","t","t","p","s",":","/","/">>)))
        ELSE IF StartsWith(t, <<"h","t","t","p",":","/","/">>) THEN Segment(Drop(t, Len(<<"h","t","t","p",":","/","/">>)))
        ELSE <<>>

\* The candidate whose host the fallback is to use: the doc-link candidate
\* when there is one, else the stable/latest candidate
HostCandidate == IF Truthy(doc_candidate) THEN doc_candidate ELSE stable_candidate

\* C21: with a candidate at hand, the fallback URL is
\* https://<domain>/<subfolder>/objects.inv, <subfolder> a stable
\* target-folder of the workflow without its leading and trailing "/", and
\* <domain> the host of the doc-link candidate when there is one (a bare
\* origin included), else the host of the stable/latest candidate.
C21_GuessOnCandidateHost ==
    (pc \in {"D_head", "done"} /\ guess # None /\ Truthy(HostCandidate)) =>
        \E w \in WorkflowAt :
            /\ IsGuessOf(guess, session[w].resp)
            /\ Segment(Drop(guess, Len(<<"h","t","t","p","s",":","/","/">>))) = HostOf(HostCandidate)

\* The HEAD probes of the candidates: the requests after the metadata fetch
\* and before the workflow fetch, if there is one
ProbeCount ==
    IF WorkflowAt = {} THEN Len(session) - 1 ELSE SetMin(WorkflowAt) - 2

\* The requests are: the metadata fetch, a probes of the doc-link candidate,
\* ProbeCount - a probes of the stable/latest candidate, each run in the
\* order of the suffixes, then the workflow fetch and the HEAD on the guess;
\* a request is followed by a request of a later stage only if it was refused
InStageOrder(a) ==
    LET b == ProbeCount - a
        rest == Len(session) - 1 - ProbeCount
    IN  /\ session[1].method = "GET" /\ session[1].url = pypi_url(pkg)
        /\ a > 0 => Truthy(doc_candidate)
        /\ b > 0 => Truthy(stable_candidate)
        /\ \A j \in 1..a :
            /\ IsHead(session[1 + j])
            /\ IsProbeOf(session[1 + j].url, doc_candidate, j)
            /\ (j < a \/ b > 0 \/ rest > 0) => ~Is200(session[1 + j].resp)
        /\ \A j \in 1..b :
            /\ IsHead(session[1 + a + j])
            /\ IsProbeOf(session[1 + a + j].url, stable_candidate, j)
            /\ (j < b \/ rest > 0) => ~Is200(session[1 + a + j].resp)
        /\ rest \in 0..2
        /\ rest >= 1 => 2 + ProbeCount \in WorkflowAt
        /\ rest = 2 =>
            /\ IsHead(session[Len(session)])
            /\ session[Len(session)].url = guess

\* C22: the requests of a call come in the order of the stages: metadata
\* fetch, probes of the doc-link candidate, probes of the stable/latest
\* candidate once the former are all refused, workflow fetch once all probes
\* are refused, fallback HEAD; none of an earlier stage follows a later one.
C22_StageOrder ==
    session # <<>> =>
        \E a \in 0..ProbeCount : a <= Len(SuffixList) /\ InStageOrder(a)

\* C22 witness: a call that went through all five stages: thirteen requests.
C22_Witness ==
    /\ pc = "done"
    /\ Len(session) = 13
    /\ 12 \in WorkflowAt
    /\ IsHead(session[13])
    /\ Truthy(doc_candidate)
    /\ Truthy(stable_candidate)
    /\ doc_candidate # stable_candidate

\* The link values and the home page of the metadata d are strings
StringMetadata(d) ==
    /\ d.json = "object"
    /\ d.purls = "map"
    /\ \A i \in 1..Len(d.urls) : IsStr(d.urls[i][2])
    /\ IsStr(d.home)

\* C23: for metadata whose link values and home page are strings, a
\* stable/latest candidate comes with a doc-link candidate, so the
\* stable/latest candidate is probed only after a doc-link candidate was
\* probed and refused.
C23_StableOnlyAfterDoc ==
    (StringMetadata(data) /\ pc = "C_probe") =>
        /\ find_doc_url_candidate(data) # None
        /\ Truthy(doc_candidate)
        /\ Len(session) >= 2
        /\ IsProbeOf(session[2].url, doc_candidate, 1)
        /\ Refused(session[2], session[2].url)

\* The stages of a call, in the order of get_intersphinx_url
Stage ==
    [idle |-> 0, A |-> 1, B |-> 2, B_probe |-> 3, C |-> 4, C_probe |-> 5,
     D |-> 6, D_head |-> 7, done |-> 8]

\* The requests of the call so far: one metadata GET, at most seven probes of
\* each candidate, one workflow GET, one fallback HEAD
RequestsBounded ==
    /\ Len(session) <= 17
    /\ Cardinality({i \in 1..Len(session) : session[i].method = "GET"}) <= 2
    /\ Cardinality({i \in 1..Len(session) : session[i].url = pypi_url(pkg)}) <= 1
    /\ Cardinality(WorkflowAt) <= 1
    /\ session # <<>> =>
        \E a \in 0..ProbeCount :
            /\ a <= 7
            /\ ProbeCount - a <= 7
            /\ InStageOrder(a)

\* A step of a running call sends one request more in the same stage, or
\* moves to a later stage
Progress ==
    pc \notin {"idle", "done"} =>
        \/ Stage[pc'] > Stage[pc]
        \/ pc' = pc /\ Len(session') = Len(session) + 1

\* C24: a call sends at most 17 requests whatever the services answer (one
\* metadata GET, at most 7 probes per candidate, one workflow GET, one
\* fallback HEAD), and it ends: every step of a running call sends a request
\* or moves to a later stage, never back.
C24_BoundedRequests == [](RequestsBounded) /\ [][Progress]_vars

\* C24 witness: the longest call: the metadata GET, all probes of the doc
\* link refused, all probes of the stable/latest candidate refused, the
\* workflow GET and the fallback HEAD, which failed
C24_Witness ==
    /\ pc = "done"
    /\ WorkflowAt # {}
    /\ ProbeCount = 2 * Len(_expansions)
    /\ Len(session) = ProbeCount + 3
    /\ \A i \in 2..(ProbeCount + 1) : ~Is200(session[i].resp)
    /\ ~Is200(session[Len(session)].resp)
    /\ result = None

\* The HEAD requests of the call that returned 200
Hits == {i \in 1..Len(session) : IsHead(session[i]) /\ Is200(session[i].resp)}

\* C25: a HEAD request that returns 200 is the last request of the call: the
\* call has ended and returned the URL of that request.
C25_First200Ends ==
    \A i \in Hits :
        /\ i = Len(session)
        /\ pc = "done"
        /\ outcome = "returned"
        /\ result = session[i].url

\* C25 witness: the third suffix of the stable/latest candidate answered 200
\* after the doc link was refused throughout: the two suffixes left, the
\* workflow and the fallback HEAD were skipped.
C25_Witness ==
    /\ pc = "done"
    /\ Hits = {Len(session)}
    /\ Len(session) = 1 + Len(_expansions) + 3
    /\ WorkflowAt = {}
    /\ Truthy(stable_candidate)
    /\ doc_candidate # stable_candidate
    /\ result = test_url(_trimmed_of(stable_candidate), _expansions[3])
====
